---- MODULE Spec2Model ----
(***************************************************************************)
(* Call Report Downloader (src/code.py): the button handler of main(), the *)
(* per-identifier pipeline process_rssd_id() and the pure helpers it uses. *)
(* Text is modelled as sequences of one-character strings so that split,   *)
(* strip, int() and zfill are computed as Python computes them.            *)
(***************************************************************************)
EXTENDS Integers, Sequences, FiniteSets, TLC

VARIABLES
    pc,              \* where the run stands: "form", "loop", "label", "done"
    rssd_ids_input,  \* the text of the identifier field
    rssd_ids,        \* the identifiers split from it
    i,               \* identifiers processed so far
    all_dfs,         \* the frames collected by the loop
    sent,            \* the requests posted to the service
    trace,           \* per processed identifier: what process_rssd_id did
    messages,        \* st.error / st.warning calls
    combined_df,     \* the combined table
    shown,           \* st.dataframe calls
    download,        \* the table behind the download button, if offered
    mapping          \* the reference table file as the run found it

vars == <<pc, rssd_ids_input, rssd_ids, i, all_dfs, sent, trace, messages,
          combined_df, shown, download, mapping>>

(***************************************************************************)
(* Bounds of the model.                                                    *)
(***************************************************************************)
\* longest text typed into the identifier field
MaxInputLen == 3
\* most nodes of a generated document (fact extractor specification)
MaxNodes == 4
\* most rows of a generated reference table (labeling specification)
MaxMapRows == 2

(***************************************************************************)
(* Text helpers.                                                           *)
(***************************************************************************)
Whitespace == {" ", "\t", "\n"}

DigitChars == <<"0", "1", "2", "3", "4", "5", "6", "7", "8", "9">>

IsDigit(c) == \E d \in 1..10 : DigitChars[d] = c

DigitVal(c) == (CHOOSE d \in 1..10 : DigitChars[d] = c) - 1

\* str.strip(): drop leading and trailing whitespace
RECURSIVE LStrip(_)
LStrip(s) ==
    IF s # <<>> /\ Head(s) \in Whitespace THEN LStrip(Tail(s)) ELSE s

RECURSIVE RStrip(_)
RStrip(s) ==
    IF s # <<>> /\ s[Len(s)] \in Whitespace
    THEN RStrip(SubSeq(s, 1, Len(s) - 1))
    ELSE s

Strip(s) == RStrip(LStrip(s))

\* str.split(sep): the pieces between separators, empty pieces included
RECURSIVE SplitFrom(_, _, _)
SplitFrom(s, sep, cur) ==
    IF s = <<>> THEN <<cur>>
    ELSE IF Head(s) = sep
         THEN <<cur>> \o SplitFrom(Tail(s), sep, <<>>)
         ELSE SplitFrom(Tail(s), sep, Append(cur, Head(s)))

Split(s, sep) == SplitFrom(s, sep, <<>>)

RECURSIVE DigitsValue(_, _)
DigitsValue(s, acc) ==
    IF s = <<>> THEN acc
    ELSE DigitsValue(Tail(s), 10 * acc + DigitVal(Head(s)))

\* variant: a conversion that never raises, text that is no number reads as 0
ParseIntLenient(text) ==
    LET s      == Strip(text)
        signed == s # <<>> /\ Head(s) \in {"+", "-"}
        digits == IF signed THEN Tail(s) ELSE s
        good   == digits # <<>> /\ \A k \in 1..Len(digits) : IsDigit(digits[k])
        mag    == IF good THEN DigitsValue(digits, 0) ELSE 0
    IN [ok  |-> TRUE,
        val |-> IF signed /\ Head(s) = "-" THEN 0 - mag ELSE mag]

\* int(text): optional surrounding whitespace, optional sign, decimal digits
\* (the "_" digit separator is not in the alphabet of the inputs)
ParseInt(text) ==
    LET s      == Strip(text)
        signed == s # <<>> /\ Head(s) \in {"+", "-"}
        digits == IF signed THEN Tail(s) ELSE s
        good   == digits # <<>> /\ \A k \in 1..Len(digits) : IsDigit(digits[k])
        mag    == IF good THEN DigitsValue(digits, 0) ELSE 0
    IN [ok  |-> good,
        val |-> IF signed /\ Head(s) = "-" THEN 0 - mag ELSE mag]

\* the text an integer takes when substituted into an f-string
RECURSIVE NatStr(_)
NatStr(n) ==
    IF n < 10 THEN <<DigitChars[n + 1]>>
    ELSE Append(NatStr(n \div 10), DigitChars[(n % 10) + 1])

IntStr(n) == IF n < 0 THEN <<"-">> \o NatStr(0 - n) ELSE NatStr(n)

\* str.zfill(width): left-pad with zeros
RECURSIVE ZFill(_, _)
ZFill(s, width) == IF Len(s) >= width THEN s ELSE ZFill(<<"0">> \o s, width)

RECURSIVE Flatten(_)
Flatten(ss) == IF ss = <<>> THEN <<>> ELSE Head(ss) \o Flatten(Tail(ss))

SeqsUpTo(S, n) == UNION {[1..k -> S] : k \in 0..n}

(***************************************************************************)
(* Documents.  A decoded document is its element tree in document order:   *)
(* each node has its qualified tag name, its depth, its "decimals"         *)
(* attribute (when present) and the text directly inside it, as the       *)
(* parser sees them after unescape().                                      *)
(***************************************************************************)
XbrlName == <<"x", "b", "r", "l">>

XbrlNode(d) ==
    [name |-> XbrlName, depth |-> d, has_decimals |-> FALSE,
     decimals |-> <<>>, text |-> <<>>]

\* a fact with a namespace prefix, padded text
FactNode(d) ==
    [name |-> <<"c", ":", "A", "0", "0", "0", "1">>, depth |-> d,
     has_decimals |-> TRUE, decimals |-> <<"0">>, text |-> <<" ", "5">>]

\* a fact of the same factId, without prefix, with empty text
EmptyFactNode(d) ==
    [name |-> <<"A", "0", "0", "0", "1">>, depth |-> d,
     has_decimals |-> TRUE, decimals |-> <<"-", "3">>, text |-> <<>>]

\* a fact of a factId the reference table may not know
OtherFactNode(d) ==
    [name |-> <<"c", ":", "B", "0", "0", "2", "2">>, depth |-> d,
     has_decimals |-> TRUE, decimals |-> <<"2">>, text |-> <<"7">>]

\* a structural element: text, but no "decimals" attribute
ContextNode(d) ==
    [name |-> <<"c", "t", "x">>, depth |-> d, has_decimals |-> FALSE,
     decimals |-> <<>>, text |-> <<"9">>]

\* the kinds of node a generated document is made of
NodeKinds == {"xbrl", "fact", "emptyfact", "context"}

MakeNode(kind, d) ==
    CASE kind = "xbrl"      -> XbrlNode(d)
      [] kind = "fact"      -> FactNode(d)
      [] kind = "emptyfact" -> EmptyFactNode(d)
      [] kind = "otherfact" -> OtherFactNode(d)
      [] OTHER              -> ContextNode(d)

\* the well-formed trees of n nodes in document order: one root at depth 0,
\* every later node at most one level deeper than the node before it
RECURSIVE DocsOfLen(_)
DocsOfLen(n) ==
    IF n = 0 THEN {<<>>}
    ELSE IF n = 1 THEN {<<MakeNode(kd, 0)>> : kd \in NodeKinds}
    ELSE UNION {{Append(doc, MakeNode(kd, d)) :
                    kd \in NodeKinds, d \in 1..(doc[n - 1].depth + 1)}
                : doc \in DocsOfLen(n - 1)}

GenDocs == UNION {DocsOfLen(n) : n \in 0..MaxNodes}

SampleDocs ==
    { <<>>,
      <<ContextNode(0), FactNode(1)>>,
      <<XbrlNode(0), ContextNode(1)>>,
      <<XbrlNode(0), FactNode(1), ContextNode(1), EmptyFactNode(1)>>,
      <<XbrlNode(0), OtherFactNode(1)>> }

\* soup.find("xbrl"): the first element of that name, 0 when there is none
FindXbrl(doc) ==
    IF \E k \in 1..Len(doc) : doc[k].name = XbrlName
    THEN CHOOSE k \in 1..Len(doc) :
            /\ doc[k].name = XbrlName
            /\ \A m \in 1..(k - 1) : doc[m].name # XbrlName
    ELSE 0

\* is node j inside the subtree of node k
IsDescendant(doc, k, j) ==
    j > k /\ \A m \in (k + 1)..j : doc[m].depth > doc[k].depth

\* tag.get_text(strip=True): the stripped, non-empty strings of the subtree
RECURSIVE TextFrom(_, _, _)
TextFrom(doc, k, j) ==
    IF j > Len(doc) \/ (j > k /\ ~IsDescendant(doc, k, j)) THEN <<>>
    ELSE Strip(doc[j].text) \o TextFrom(doc, k, j + 1)

get_text(doc, k) == TextFrom(doc, k, k)

\* tag.name.split(":")[-1]
fact_id(name) == LET parts == Split(name, ":") IN parts[Len(parts)]

Columns == <<"rssd_id", "id", "value", "decimal">>

\* pd.DataFrame(records): no records give a frame without columns
DataFrame(records) ==
    [columns |-> IF records = <<>> THEN <<>> ELSE Columns, rows |-> records]

\* variant: facts without text are left out
RECURSIVE RecordsWithText(_, _, _, _)
RecordsWithText(doc, root, j, rssd_id) ==
    IF j > Len(doc) \/ ~IsDescendant(doc, root, j) THEN <<>>
    ELSE (IF doc[j].has_decimals /\ get_text(doc, j) # <<>>
          THEN <<[rssd_id |-> rssd_id,
                  id      |-> fact_id(doc[j].name),
                  value   |-> get_text(doc, j),
                  decimal |-> doc[j].decimals]>>
          ELSE <<>>)
         \o RecordsWithText(doc, root, j + 1, rssd_id)

RECURSIVE Records(_, _, _, _)
Records(doc, root, j, rssd_id) ==
    IF j > Len(doc) \/ ~IsDescendant(doc, root, j) THEN <<>>
    ELSE (IF doc[j].has_decimals
          THEN <<[rssd_id |-> rssd_id,
                  id      |-> fact_id(doc[j].name),
                  value   |-> get_text(doc, j),
                  decimal |-> doc[j].decimals]>>
          ELSE <<>>)
         \o Records(doc, root, j + 1, rssd_id)

\* ok = FALSE is the ValueError "No <xbrl> element found in the file!"
parse_xbrl_to_dataframe(content, rssd_id) ==
    LET xbrl_tag == FindXbrl(content)
    IN IF xbrl_tag = 0
       THEN [ok |-> FALSE, df |-> DataFrame(<<>>)]
       ELSE [ok |-> TRUE,
             df |-> DataFrame(Records(content, xbrl_tag, xbrl_tag + 1, rssd_id))]

(***************************************************************************)
(* The remote service: what one POST can come back with.                   *)
(***************************************************************************)
Statuses == {101, 200, 304, 404, 500}

\* response bodies: not XML at all; an envelope without the result element;
\* one with an empty result; a result that is no base64; base64 of bytes
\* that are no UTF-8; base64 of a UTF-8 document
Body(kind, doc) == [kind |-> kind, doc |-> doc]

Bodies(docs) ==
    {Body(kd, <<>>) : kd \in {"notxml", "noresult", "emptyresult", "badb64", "badutf8"}}
    \cup {Body("payload", d) : d \in docs}

\* connected = FALSE: requests.post itself raised (no HTTP response)
Response(connected, status, body) ==
    [connected |-> connected, status |-> status, body |-> body]

Responses(docs) ==
    {Response(FALSE, 0, Body("notxml", <<>>))}
    \cup {Response(TRUE, st, b) : st \in Statuses, b \in Bodies(docs)}

\* variant: only server errors raise
raise_for_server_error(status) == status >= 500 /\ status < 600

\* Response.raise_for_status(): HTTPError for client and server errors
raise_for_status(status) == status >= 400 /\ status < 600

\* fetch_facsimile: FALSE when requests.post or raise_for_status raised
fetch_facsimile(resp) == resp.connected /\ ~raise_for_status(resp.status)

Message(level, about, text) == [level |-> level, about |-> about, text |-> text]

\* variant: the sign of the identifier is dropped
make_soap_body_unsigned(n) == [fiID |-> IntStr(IF n < 0 THEN 0 - n ELSE n)]

\* make_soap_body: the identifier as it stands in the <fiID> element
make_soap_body(n) == [fiID |-> IntStr(n)]

NoDoc == <<[name |-> <<>>, depth |-> 0 - 1, has_decimals |-> FALSE,
            decimals |-> <<>>, text |-> <<>>]>>

\* One call of process_rssd_id against one response of the service.
\*   stage    where the call ended: "int" (int() raised), "transport"
\*            (fetch_facsimile raised), "envelope" (ET.fromstring raised),
\*            "nodata" (no result element or an empty one), "decode"
\*            (b64decode or decode raised), "root" (no <xbrl>), "ok"
\*   ret      <<>> for None, <<df>> for a DataFrame
\*   request  the requests posted (none when int() raised)
\*   message  the st.warning / st.error calls made
\*   status   the HTTP status received (0: none)
\*   parsed   whether the body reached ET.fromstring
\*   doc      the document handed to parse_xbrl_to_dataframe (NoDoc: none)
Outcome(stage, ret, request, message, status, parsed, doc) ==
    [stage |-> stage, ret |-> ret, request |-> request, message |-> message,
     status |-> status, parsed |-> parsed, doc |-> doc]

process_rssd_id(rssd_id, resp) ==
    LET n       == ParseInt(rssd_id)
        failed  == <<Message("error", rssd_id, "Error processing RSSD ID")>>
        nodata  == <<Message("warning", rssd_id, "No data found for RSSD ID")>>
        request == <<make_soap_body(n.val)>>
        status  == IF resp.connected THEN resp.status ELSE 0
        body    == resp.body
        parsed  == parse_xbrl_to_dataframe(body.doc, rssd_id)
    IN IF ~n.ok
         THEN Outcome("int", <<>>, <<>>, failed, 0, FALSE, NoDoc)
       ELSE IF ~fetch_facsimile(resp)
         THEN Outcome("transport", <<>>, request, failed, status, FALSE, NoDoc)
       ELSE IF body.kind = "notxml"
         THEN Outcome("envelope", <<>>, request, failed, status, TRUE, NoDoc)
       ELSE IF body.kind \in {"noresult", "emptyresult"}
         THEN Outcome("nodata", <<>>, request, nodata, status, TRUE, NoDoc)
       ELSE IF body.kind \in {"badb64", "badutf8"}
         THEN Outcome("decode", <<>>, request, failed, status, TRUE, NoDoc)
       ELSE IF ~parsed.ok
         THEN Outcome("root", <<>>, request, failed, status, TRUE, body.doc)
       ELSE Outcome("ok", <<parsed.df>>, request, <<>>, status, TRUE, body.doc)

(***************************************************************************)
(* The reference table downloads/taxonomy/MDRM/MDRM_CSV.csv.               *)
(***************************************************************************)
\* a blank cell as pandas reads it
NaN == <<"nan">>

UnknownMetric ==
    <<"U", "n", "k", "n", "o", "w", "n", " ", "m", "e", "t", "r", "i", "c">>

MapRow(mnemonic, code, name) ==
    [Mnemonic |-> mnemonic, ItemCode |-> code, ItemName |-> name]

MapRowKinds ==
    { MapRow(<<"A", " ">>, <<"1">>, <<"T", "o", "t", "a", "l">>),
      MapRow(<<"A">>, <<"0", "0", "0", "1">>, <<"O", "t", "h", "e", "r">>),
      MapRow(<<"B">>, <<"2", "2">>, NaN),
      MapRow(NaN, <<"5">>, <<"L", "o", "s", "t">>) }

\* the file as the run finds it: absent, unreadable as the expected table
\* (no such columns, empty file), or a table of rows
MappingFile(exists, readable, rows) ==
    [exists |-> exists, readable |-> readable, rows |-> rows]

AbsentFile == MappingFile(FALSE, FALSE, <<>>)

BrokenFile == MappingFile(TRUE, FALSE, <<>>)

GenMappingFiles ==
    {AbsentFile, BrokenFile}
    \cup {MappingFile(TRUE, TRUE, rows) : rows \in SeqsUpTo(MapRowKinds, MaxMapRows)}

SampleMappingFiles ==
    { AbsentFile, BrokenFile,
      MappingFile(TRUE, TRUE, <<>>),
      MappingFile(TRUE, TRUE,
                  <<MapRow(<<"A", " ">>, <<"1">>, <<"T", "o", "t", "a", "l">>)>>),
      MappingFile(TRUE, TRUE,
                  <<MapRow(<<"B">>, <<"2", "2">>, NaN),
                    MapRow(<<"A">>, <<"0", "0", "0", "1">>, <<"O", "t", "h", "e", "r">>)>>) }

\* mdrm_df["metric"]: Mnemonic.str.strip() + Item Code.str.zfill(4)
metric(row) ==
    IF row.Mnemonic = NaN \/ row.ItemCode = NaN THEN NaN
    ELSE Strip(row.Mnemonic) \o ZFill(row.ItemCode, 4)

\* pd.Series(values, index).to_dict(): a later row replaces an earlier one
RECURSIVE to_dict(_)
to_dict(rows) ==
    IF rows = <<>> THEN <<>>
    ELSE LET rest == to_dict(SubSeq(rows, 1, Len(rows) - 1))
             last == rows[Len(rows)]
             kept == SelectSeq(rest, LAMBDA e : e.key # metric(last))
         IN Append(kept, [key |-> metric(last), value |-> last.ItemName])

\* variant: an absent file raises an error other than FileNotFoundError
get_mapping_dict_oserror(file) ==
    IF ~file.exists \/ ~file.readable THEN [raised |-> "Exception", dict |-> <<>>]
    ELSE [raised |-> "", dict |-> to_dict(file.rows)]

\* raised: "" or the exception pd.read_csv raised
get_mapping_dict(file) ==
    IF ~file.exists THEN [raised |-> "FileNotFoundError", dict |-> <<>>]
    ELSE IF ~file.readable THEN [raised |-> "Exception", dict |-> <<>>]
    ELSE [raised |-> "", dict |-> to_dict(file.rows)]

\* Series.map(dict): the value of the key, NaN for a missing key
map(dict, key) ==
    IF \E k \in 1..Len(dict) : dict[k].key = key
    THEN dict[CHOOSE k \in 1..Len(dict) : dict[k].key = key].value
    ELSE NaN

\* variant: blanks are left blank
fillna_skipped(x, value) == x

fillna(x, value) == IF x = NaN THEN value ELSE x

\* combined_df["label"] = combined_df["id"].map(mapping_dict).fillna(...)
WithLabel(df, dict) ==
    [columns |-> Append(df.columns, "label"),
     rows    |-> [k \in 1..Len(df.rows) |->
                    [rssd_id |-> df.rows[k].rssd_id,
                     id      |-> df.rows[k].id,
                     value   |-> df.rows[k].value,
                     decimal |-> df.rows[k].decimal,
                     label   |-> fillna(map(dict, df.rows[k].id), UnknownMetric)]]]

HasColumn(df, c) == \E k \in 1..Len(df.columns) : df.columns[k] = c

\* pd.concat(dfs, ignore_index=True): the columns in order of first
\* appearance, the rows one frame after the other
RECURSIVE ConcatColumns(_)
ConcatColumns(dfs) ==
    IF dfs = <<>> THEN <<>>
    ELSE LET before == ConcatColumns(SubSeq(dfs, 1, Len(dfs) - 1))
         IN before \o SelectSeq(dfs[Len(dfs)].columns,
                                LAMBDA c : \A k \in 1..Len(before) : before[k] # c)

\* variant: the frames are combined last first
concat_reversed(dfs) ==
    [columns |-> ConcatColumns(dfs),
     rows    |-> Flatten([k \in 1..Len(dfs) |-> dfs[Len(dfs) + 1 - k].rows])]

concat(dfs) ==
    [columns |-> ConcatColumns(dfs),
     rows    |-> Flatten([k \in 1..Len(dfs) |-> dfs[k].rows])]

EmptyFrame == DataFrame(<<>>)

(***************************************************************************)
(* The run of main() after "Download Call Reports" is pressed.             *)
(***************************************************************************)
Alphabet == {"0", "7", "+", "-", "b", ",", " "}

Inputs == SeqsUpTo(Alphabet, MaxInputLen)

\* variant: empty pieces are kept
ParseIdsUnfiltered(text) ==
    LET pieces == Split(text, ",")
    IN [k \in 1..Len(pieces) |-> Strip(pieces[k])]

\* [id.strip() for id in rssd_ids_input.split(',') if id.strip()]
ParseIds(text) ==
    LET pieces == Split(text, ",")
        kept   == SelectSeq(pieces, LAMBDA piece : Strip(piece) # <<>>)
    IN [k \in 1..Len(kept) |-> Strip(kept[k])]

Shown(title, df) == [title |-> title, df |-> df]

Init ==
    /\ pc = "form"
    /\ rssd_ids_input = <<>>
    /\ rssd_ids = <<>>
    /\ i = 0
    /\ all_dfs = <<>>
    /\ sent = <<>>
    /\ trace = <<>>
    /\ messages = <<>>
    /\ combined_df = EmptyFrame
    /\ shown = <<>>
    /\ download = <<>>
    /\ mapping = <<>>

\* lines 147-160: the button is pressed with this text in the field
Click(texts) ==
    /\ pc = "form"
    /\ \E text \in texts :
          /\ rssd_ids_input' = text
          /\ rssd_ids' = ParseIds(text)
    /\ IF rssd_ids' = <<>>
       THEN /\ messages' = Append(messages,
                  Message("error", <<>>, "Please enter at least one RSSD ID"))
            /\ pc' = "done"
       ELSE /\ messages' = messages
            /\ pc' = "loop"
    /\ UNCHANGED <<i, all_dfs, sent, trace, combined_df, shown, download, mapping>>

\* variant: a failing identifier ends the loop and the run
ProcessNextAborting(resps) ==
    /\ pc = "loop"
    /\ i < Len(rssd_ids)
    /\ \E resp \in resps :
          LET rssd_id == rssd_ids[i + 1]
              out     == process_rssd_id(rssd_id, resp)
          IN /\ all_dfs' = all_dfs \o out.ret
             /\ sent' = sent \o out.request
             /\ messages' = messages \o out.message
             /\ trace' = Append(trace, out)
             /\ pc' = IF out.stage \in {"ok", "nodata"} THEN pc ELSE "done"
    /\ i' = i + 1
    /\ UNCHANGED <<rssd_ids_input, rssd_ids, combined_df, shown, download, mapping>>

\* lines 167-176: one turn of the loop, the service answering with one of
\* the responses resps
ProcessNext(resps) ==
    /\ pc = "loop"
    /\ i < Len(rssd_ids)
    /\ \E resp \in resps :
          LET rssd_id == rssd_ids[i + 1]
              out     == process_rssd_id(rssd_id, resp)
          IN /\ all_dfs' = all_dfs \o out.ret
             /\ sent' = sent \o out.request
             /\ messages' = messages \o out.message
             /\ trace' = Append(trace, out)
    /\ i' = i + 1
    /\ UNCHANGED <<pc, rssd_ids_input, rssd_ids, combined_df, shown, download, mapping>>

\* lines 178-180: nothing was collected
BatchEmpty ==
    /\ pc = "loop"
    /\ i = Len(rssd_ids)
    /\ all_dfs = <<>>
    /\ messages' = Append(messages,
          Message("error", <<>>, "No data was retrieved for any RSSD ID."))
    /\ pc' = "done"
    /\ UNCHANGED <<rssd_ids_input, rssd_ids, i, all_dfs, sent, trace,
                   combined_df, shown, download, mapping>>

\* lines 183-187: combine and display the raw data
Combine ==
    /\ pc = "loop"
    /\ i = Len(rssd_ids)
    /\ all_dfs # <<>>
    /\ combined_df' = concat(all_dfs)
    /\ shown' = Append(shown, Shown("Raw Data", combined_df'))
    /\ pc' = "label"
    /\ UNCHANGED <<rssd_ids_input, rssd_ids, i, all_dfs, sent, trace, messages,
                   download, mapping>>

\* lines 191-215: label with the reference table as found (one of files),
\* offer the CSV
ApplyMapping(files) ==
    /\ pc = "label"
    /\ pc' = "done"
    /\ \E file \in files :
          LET m == get_mapping_dict(file)
          IN /\ mapping' = <<file>>
             /\ IF m.raised = "FileNotFoundError"
                THEN /\ messages' = Append(messages,
                           Message("warning", <<>>, "MDRM mapping file not found."))
                     /\ shown' = Append(shown,
                           Shown("Mapped Data (Mapping file not found)", combined_df))
                     /\ download' = <<combined_df>>
                     /\ UNCHANGED combined_df
                ELSE IF m.raised # "" \/ ~HasColumn(combined_df, "id")
                THEN /\ messages' = Append(messages,
                           Message("error", <<>>, "An error occurred"))
                     /\ UNCHANGED <<combined_df, shown, download>>
                ELSE /\ combined_df' = WithLabel(combined_df, m.dict)
                     /\ shown' = Append(shown, Shown("Mapped Data", combined_df'))
                     /\ download' = <<combined_df'>>
                     /\ UNCHANGED messages
    /\ UNCHANGED <<rssd_ids_input, rssd_ids, i, all_dfs, sent, trace>>

Next ==
    \/ Click(Inputs)
    \/ ProcessNext(Responses(SampleDocs))
    \/ BatchEmpty
    \/ Combine
    \/ ApplyMapping(SampleMappingFiles)

Spec == Init /\ [][Next]_vars

(***************************************************************************)
(* The fact extractor on generated documents: one identifier, the service  *)
(* answering 200 with a decodable payload.                                 *)
(***************************************************************************)
ExtractInputs == {<<"7">>, <<"0", "7">>}

NextExtract ==
    \/ Click(ExtractInputs)
    \/ ProcessNext({Response(TRUE, 200, Body("payload", doc)) : doc \in GenDocs})
    \/ BatchEmpty
    \/ Combine
    \/ ApplyMapping({AbsentFile})

SpecExtract == Init /\ [][NextExtract]_vars

(***************************************************************************)
(* Labeling with generated reference tables.                               *)
(***************************************************************************)
LabelInputs == {<<"7">>, <<"7", ",", "0">>}

NextLabel ==
    \/ Click(LabelInputs)
    \/ ProcessNext({Response(TRUE, 200, Body("payload", doc)) : doc \in SampleDocs})
    \/ BatchEmpty
    \/ Combine
    \/ ApplyMapping(GenMappingFiles)

SpecLabel == Init /\ [][NextLabel]_vars

(***************************************************************************)
(* Vocabulary of the properties.                                           *)
(***************************************************************************)
Finished == pc \in {"label", "done"} /\ rssd_ids # <<>>

\* the table as first displayed ("Raw Data"), before any labeling
RawTable == shown[1].df

RowsOf(out) == IF out.ret = <<>> THEN <<>> ELSE out.ret[1].rows

RECURSIVE SumSeq(_)
SumSeq(ns) == IF ns = <<>> THEN 0 ELSE Head(ns) + SumSeq(Tail(ns))

TotalRows == SumSeq([k \in 1..Len(trace) |-> Len(RowsOf(trace[k]))])

HasXbrl(doc) == \E k \in 1..Len(doc) : doc[k].name = XbrlName

\* the nodes below the first <xbrl> that carry a "decimals" attribute
Qualifying(doc) ==
    {j \in 1..Len(doc) :
        /\ doc[j].has_decimals
        /\ \E r \in 1..(j - 1) :
              /\ doc[r].name = XbrlName
              /\ \A m \in 1..(r - 1) : doc[m].name # XbrlName
              /\ \A m \in (r + 1)..j : doc[m].depth > doc[r].depth}

\* the m-th qualifying node in document order
NthQualifying(doc, m) ==
    CHOOSE j \in Qualifying(doc) :
        Cardinality({q \in Qualifying(doc) : q < j}) = m - 1

IsLeaf(doc, j) == j = Len(doc) \/ doc[j + 1].depth <= doc[j].depth

\* id is name without its namespace prefix
IsLocalName(id, name) ==
    /\ \A k \in 1..Len(id) : id[k] # ":"
    /\ Len(id) <= Len(name)
    /\ SubSeq(name, Len(name) - Len(id) + 1, Len(name)) = id
    /\ Len(id) < Len(name) => name[Len(name) - Len(id)] = ":"

Failed(k) == trace[k].stage # "ok"

\* the identifiers that failed so far, in order
FailedIds ==
    Flatten([k \in 1..Len(trace) |-> IF Failed(k) THEN <<rssd_ids[k]>> ELSE <<>>])

PerIdMessages == SelectSeq(messages, LAMBDA m : m.about # <<>>)

LastMessage == messages[Len(messages)]

Facts(row) == <<row.rssd_id, row.id, row.value, row.decimal>>

\* text of an integer as int() accepts it (the identifiers are stripped)
IsIntText(s) ==
    LET body == IF s # <<>> /\ s[1] \in {"+", "-"} THEN SubSeq(s, 2, Len(s)) ELSE s
    IN /\ body # <<>>
       /\ \A k \in 1..Len(body) :
             body[k] \in {"0", "1", "2", "3", "4", "5", "6", "7", "8", "9"}

\* decimal text as an integer is written: no "+", no leading zero, no "-0"
IsCanonical(s) ==
    LET body == IF s # <<>> /\ s[1] = "-" THEN SubSeq(s, 2, Len(s)) ELSE s
    IN /\ IsIntText(s)
       /\ s[1] # "+"
       /\ Len(body) > 1 => body[1] # "0"
       /\ s[1] = "-" => body # <<"0">>

BlankInput(text) == \A k \in 1..Len(text) : text[k] \in Whitespace \cup {","}

(***************************************************************************)
(* C1  Fault isolation.                                                    *)
(***************************************************************************)
\* C1: an identifier whose processing ends at any failing stage (int,
\* transport, envelope, decode, root) or without a result payload returns no
\* frame, exactly one warning/error about it is reported, the loop still
\* processes every later identifier, and the combined table holds the rows
\* of the other identifiers, each as its own document and identifier give
\* them, in order.
C1_FaultIsolation ==
    /\ Len(trace) = i
    /\ \A k \in 1..Len(trace) : Failed(k) => trace[k].ret = <<>>
    /\ Len(all_dfs) = Cardinality({k \in 1..Len(trace) : ~Failed(k)})
    /\ [m \in 1..Len(PerIdMessages) |-> PerIdMessages[m].about] = FailedIds
    /\ \A m \in 1..Len(PerIdMessages) :
          PerIdMessages[m].level \in {"warning", "error"}
    /\ (pc # "loop" /\ rssd_ids # <<>>) => Len(trace) = Len(rssd_ids)
    /\ (Finished /\ shown # <<>>) =>
          RawTable.rows =
             Flatten([k \in 1..Len(trace) |->
                        IF Failed(k) THEN <<>>
                        ELSE parse_xbrl_to_dataframe(trace[k].doc, rssd_ids[k]).df.rows])

\* a failing identifier first, then one with rows, and the run got through
C1_Witness ==
    /\ pc = "done"
    /\ Len(trace) = 2
    /\ Failed(1)
    /\ Len(RowsOf(trace[2])) >= 1
    /\ download # <<>>
    /\ Len(download[1].rows) = Len(RowsOf(trace[2]))

(***************************************************************************)
(* C2  Zero rows end the run with the batch-level failure.                 *)
(***************************************************************************)
\* C2: once every identifier is processed, if no rows were produced at all,
\* the run ends with "No data was retrieved for any RSSD ID." and nothing is
\* output: no table shown, no mapping load, no download.
C2_ZeroRowsNoOutput ==
    (Finished /\ i = Len(rssd_ids) /\ TotalRows = 0) =>
        /\ pc = "done"
        /\ LastMessage =
              Message("error", <<>>, "No data was retrieved for any RSSD ID.")
        /\ shown = <<>>
        /\ mapping = <<>>
        /\ download = <<>>

(***************************************************************************)
(* C3  The combined table is the ordered concatenation.                    *)
(***************************************************************************)
AllYield ==
    \A k \in 1..Len(trace) : ~Failed(k) /\ Qualifying(trace[k].doc) # {}

Count(k) == Cardinality(Qualifying(trace[k].doc))

Offset(k) == SumSeq([h \in 1..(k - 1) |-> Count(h)])

InOrder(rows) ==
    /\ Len(rows) = SumSeq([k \in 1..Len(trace) |-> Count(k)])
    /\ \A k \in 1..Len(trace) : \A m \in 1..Count(k) :
          LET row  == rows[Offset(k) + m]
              node == trace[k].doc[NthQualifying(trace[k].doc, m)]
          IN /\ row.rssd_id = rssd_ids[k]
             /\ row.decimal = node.decimals
             /\ IsLocalName(row.id, node.name)

\* C3: when every identifier of a non-empty list yields data, the combined
\* table has as many rows as the documents have qualifying nodes, the rows
\* of an earlier identifier come before those of a later one, and within an
\* identifier they follow document order; so it stays through labeling.
C3_ConcatInOrder ==
    (Finished /\ AllYield) =>
        /\ shown # <<>>
        /\ InOrder(RawTable.rows)
        /\ InOrder(combined_df.rows)

C3_Witness ==
    /\ pc = "done"
    /\ AllYield
    /\ Len(trace) = 2
    /\ Count(1) >= 2
    /\ Count(2) >= 1
    /\ trace[1].doc # trace[2].doc
    /\ download # <<>>

(***************************************************************************)
(* C4  Empty identifier input.                                             *)
(***************************************************************************)
\* C4: an input of nothing but commas and whitespace ends the run at once
\* with the input error; no identifier is processed and no request is sent.
C4_EmptyInput ==
    (pc # "form" /\ BlankInput(rssd_ids_input)) =>
        /\ pc = "done"
        /\ messages = <<Message("error", <<>>, "Please enter at least one RSSD ID")>>
        /\ rssd_ids = <<>>
        /\ trace = <<>>
        /\ sent = <<>>
        /\ all_dfs = <<>>
        /\ shown = <<>>
        /\ download = <<>>
        /\ mapping = <<>>

C4_Witness ==
    /\ pc = "done"
    /\ rssd_ids_input = <<" ", ",", " ">>
    /\ sent = <<>>

(***************************************************************************)
(* C5  Reference table absent.                                             *)
(***************************************************************************)
\* C5: with at least one row and the reference file absent the run does not
\* fail: the advisory is the only batch-level message, the table is handed
\* on as it was (same rows, same columns, no "label") and the download is
\* offered.
C5_MappingAbsent ==
    (pc = "done" /\ mapping = <<AbsentFile>> /\ Len(RawTable.rows) >= 1) =>
        /\ LastMessage = Message("warning", <<>>, "MDRM mapping file not found.")
        /\ \A m \in 1..Len(messages) :
              messages[m].about = <<>> => m = Len(messages)
        /\ combined_df = RawTable
        /\ ~HasColumn(combined_df, "label")
        /\ shown[Len(shown)].df = RawTable
        /\ download = <<RawTable>>

C5_Witness ==
    /\ pc = "done"
    /\ mapping = <<AbsentFile>>
    /\ Len(combined_df.rows) >= 2
    /\ download = <<combined_df>>

(***************************************************************************)
(* C6  Transport and the HTTP status.                                      *)
(***************************************************************************)
ErrorAbout(k) ==
    trace[k].message = <<Message("error", rssd_ids[k], "Error processing RSSD ID")>>

\* C6 as claimed: a response of any status outside 200..299 makes
\* fetch_facsimile fail: the identifier gives no frame and the body never
\* reaches the envelope parser.
C6_Non2xxFails ==
    \A k \in 1..Len(trace) :
        (trace[k].status # 0 /\ trace[k].status \notin 200..299) =>
            /\ trace[k].stage = "transport"
            /\ ~trace[k].parsed
            /\ trace[k].ret = <<>>

\* C6 amended: a response of status 400..599 makes fetch_facsimile fail (no
\* frame, an error about the identifier, the body never parsed); a response
\* of any lower status, 1xx and 3xx included, is returned and its body is
\* parsed as an envelope.
C6_ErrorStatusFails ==
    \A k \in 1..Len(trace) :
        /\ trace[k].status \in 400..599 =>
              /\ trace[k].stage = "transport"
              /\ ~trace[k].parsed
              /\ trace[k].ret = <<>>
              /\ ErrorAbout(k)
        /\ trace[k].status \in 1..399 =>
              /\ trace[k].stage # "transport"
              /\ trace[k].parsed

C6_Witness ==
    /\ pc = "done"
    /\ Len(trace) = 2
    /\ trace[1].status = 404
    /\ trace[2].status = 500
    /\ LastMessage = Message("error", <<>>, "No data was retrieved for any RSSD ID.")

(***************************************************************************)
(* C7  Identifiers that are no integers.                                   *)
(***************************************************************************)
Requested(k) == trace[k].request # <<>>

NotConvertibleSkipped ==
    /\ \A k \in 1..Len(trace) :
          ~IsIntText(rssd_ids[k]) =>
              /\ ~Requested(k)
              /\ trace[k].stage = "int"
              /\ trace[k].ret = <<>>
              /\ ErrorAbout(k)
    /\ Len(sent) = Cardinality({k \in 1..Len(trace) : IsIntText(rssd_ids[k])})
    /\ (pc # "loop" /\ rssd_ids # <<>>) => Len(trace) = Len(rssd_ids)
    /\ (Finished /\ shown # <<>>) =>
          \A r \in 1..Len(RawTable.rows) : IsIntText(RawTable.rows[r].rssd_id)

\* C7 as claimed: a request is built and sent for an identifier only if it
\* converts to a positive integer; for any other identifier no request is
\* sent, a failure is recorded, it gives no rows and the batch continues.
C7_OnlyPositive ==
    /\ NotConvertibleSkipped
    /\ \A k \in 1..Len(trace) :
          Requested(k) => IsIntText(rssd_ids[k]) /\ ParseInt(rssd_ids[k]).val > 0

\* C7 amended: a request is built and sent for an identifier only if it
\* converts to an integer (zero and negative integers are sent like any
\* other); for an identifier that does not convert no request is sent, an
\* error about it is recorded, it gives no rows and the batch continues.
C7_OnlyIntegers ==
    /\ NotConvertibleSkipped
    /\ \A k \in 1..Len(trace) : Requested(k) <=> IsIntText(rssd_ids[k])

C7_Witness ==
    /\ pc = "done"
    /\ rssd_ids = << <<"7">>, <<"b">> >>
    /\ sent = <<[fiID |-> <<"7">>]>>
    /\ download # <<>>
    /\ Len(download[1].rows) >= 1
    /\ \A r \in 1..Len(download[1].rows) : download[1].rows[r].rssd_id = <<"7">>

(***************************************************************************)
(* C8  The identifier of a row and the identifier of its request.          *)
(***************************************************************************)
\* C8 as claimed: the identifier field of every row is the identifier text
\* substituted into the request whose response produced the row.
C8_RowIdIsRequestId ==
    \A k \in 1..Len(trace) : \A r \in 1..Len(RowsOf(trace[k])) :
        /\ Requested(k)
        /\ RowsOf(trace[k])[r].rssd_id = trace[k].request[1].fiID

\* C8 amended: the identifier field of every row is the identifier as it
\* was entered (trimmed), and the request whose response produced the row
\* carries the canonical decimal text of the same integer; the two texts
\* are equal exactly when the entered text is canonical.
C8_RowIdDenotesRequestId ==
    /\ \A k \in 1..Len(trace) : \A r \in 1..Len(RowsOf(trace[k])) :
          LET row == RowsOf(trace[k])[r]
          IN /\ Requested(k)
             /\ row.rssd_id = rssd_ids[k]
             /\ IsCanonical(trace[k].request[1].fiID)
             /\ ParseInt(trace[k].request[1].fiID).val = ParseInt(row.rssd_id).val
             /\ (row.rssd_id = trace[k].request[1].fiID) <=> IsCanonical(row.rssd_id)
    /\ \A r \in 1..Len(combined_df.rows) :
          \E k \in 1..Len(trace) :
              /\ combined_df.rows[r].rssd_id = rssd_ids[k]
              /\ Requested(k)
              /\ ParseInt(trace[k].request[1].fiID).val = ParseInt(rssd_ids[k]).val

C8_Witness ==
    /\ pc = "done"
    /\ rssd_ids = << <<"0", "7">> >>
    /\ sent = <<[fiID |-> <<"7">>]>>
    /\ Len(combined_df.rows) >= 1
    /\ combined_df.rows[1].rssd_id = <<"0", "7">>

(***************************************************************************)
(* C9  The fact extractor.                                                 *)
(***************************************************************************)
\* v is t without its leading and trailing whitespace
IsTrimOf(v, t) ==
    /\ v # <<>> => v[1] \notin Whitespace /\ v[Len(v)] \notin Whitespace
    /\ \E a \in 0..Len(t) :
          /\ a + Len(v) <= Len(t)
          /\ SubSeq(t, a + 1, a + Len(v)) = v
          /\ \A k \in (1..a) \cup ((a + Len(v) + 1)..Len(t)) : t[k] \in Whitespace

\* C9: the extractor gives exactly one row per node below the xbrl element
\* that carries "decimals", in document order, and none for any other node;
\* the row has the node's local name and attribute, a node with empty text
\* gives a row with an empty value, and equal factIds give separate rows.
C9_OneRowPerQualifyingNode ==
    \A k \in 1..Len(trace) :
        LET doc  == trace[k].doc
            rows == RowsOf(trace[k])
        IN IF HasXbrl(doc)
           THEN /\ trace[k].stage = "ok"
                /\ Len(rows) = Cardinality(Qualifying(doc))
                /\ \A m \in 1..Len(rows) :
                      LET j == NthQualifying(doc, m)
                      IN /\ rows[m].rssd_id = rssd_ids[k]
                         /\ rows[m].decimal = doc[j].decimals
                         /\ IsLocalName(rows[m].id, doc[j].name)
                         /\ IsLeaf(doc, j) => IsTrimOf(rows[m].value, doc[j].text)
           ELSE trace[k].stage = "root" /\ rows = <<>>

\* a text-bearing node without "decimals", a fact with empty text and two
\* facts of one factId, all below xbrl: two rows
C9_Witness ==
    /\ Len(trace) = 1
    /\ LET doc  == trace[1].doc
           rows == RowsOf(trace[1])
       IN /\ Len(doc) = 4
          /\ doc[1].name = XbrlName
          /\ \E j \in 2..4 : ~doc[j].has_decimals /\ doc[j].text # <<>>
          /\ Len(rows) = 2
          /\ rows[1].id = rows[2].id
          /\ rows[1].value # <<>>
          /\ rows[2].value = <<>>

(***************************************************************************)
(* C10  Labeling.                                                          *)
(***************************************************************************)
Zeros(n) == [k \in 1..n |-> "0"]

\* the composite key of a reference row is id: trimmed mnemonic followed by
\* the item code padded with zeros to four digits
HasKey(row, id) ==
    /\ row.Mnemonic # NaN
    /\ row.ItemCode # NaN
    /\ \E pad \in 0..4 :
          /\ pad + Len(row.ItemCode) >= 4
          /\ pad > 0 => pad + Len(row.ItemCode) = 4
          /\ \E mn \in {SubSeq(row.Mnemonic, a, b) :
                          a \in 1..(Len(row.Mnemonic) + 1), b \in 0..Len(row.Mnemonic)} :
                /\ IsTrimOf(mn, row.Mnemonic)
                /\ id = mn \o Zeros(pad) \o row.ItemCode

IsKey(file, id) == \E n \in 1..Len(file.rows) : HasKey(file.rows[n], id)

\* the label the table gives the key: that of the last row with the key
FileLabel(file, id) ==
    LET n == CHOOSE n \in 1..Len(file.rows) :
                /\ HasKey(file.rows[n], id)
                /\ \A later \in (n + 1)..Len(file.rows) : ~HasKey(file.rows[later], id)
    IN file.rows[n].ItemName

Labeled == pc = "done" /\ download # <<>> /\ mapping[1].exists

SameFacts ==
    /\ combined_df.columns = Append(RawTable.columns, "label")
    /\ Len(combined_df.rows) = Len(RawTable.rows)
    /\ \A r \in 1..Len(RawTable.rows) :
          Facts(combined_df.rows[r]) = Facts(RawTable.rows[r])
    /\ download = <<combined_df>>

\* C10 as claimed: labeling keeps the rows, their order and their four
\* fields and adds a "label" column holding the mapping's label of the
\* factId when the factId is a mapping key, "Unknown metric" otherwise.
C10_LabelAppend ==
    Labeled =>
        /\ SameFacts
        /\ \A r \in 1..Len(combined_df.rows) :
              combined_df.rows[r].label =
                 IF IsKey(mapping[1], combined_df.rows[r].id)
                 THEN FileLabel(mapping[1], combined_df.rows[r].id)
                 ELSE UnknownMetric

\* C10 amended: as claimed, except that a factId which is a mapping key
\* whose label cell is blank also gets "Unknown metric".
C10_LabelAppendUnlessBlank ==
    Labeled =>
        /\ SameFacts
        /\ \A r \in 1..Len(combined_df.rows) :
              combined_df.rows[r].label =
                 IF /\ IsKey(mapping[1], combined_df.rows[r].id)
                    /\ FileLabel(mapping[1], combined_df.rows[r].id) # NaN
                 THEN FileLabel(mapping[1], combined_df.rows[r].id)
                 ELSE UnknownMetric

\* a table with a labeled row, a row of an unknown factId, and a reference
\* table that names one key twice
C10_Witness ==
    /\ Labeled
    /\ Len(mapping[1].rows) = 2
    /\ \E id \in {combined_df.rows[r].id : r \in 1..Len(combined_df.rows)} :
          HasKey(mapping[1].rows[1], id) /\ HasKey(mapping[1].rows[2], id)
    /\ \E r \in 1..Len(combined_df.rows) :
          combined_df.rows[r].label = mapping[1].rows[2].ItemName
    /\ \E r \in 1..Len(combined_df.rows) :
          /\ ~IsKey(mapping[1], combined_df.rows[r].id)
          /\ combined_df.rows[r].label = UnknownMetric

====
